---- MODULE Spec2Model ----
(***************************************************************************)
(* The content-published worker of daily-api (src/unnamed/part_001): one   *)
(* message is handled inside one store transaction; it rejects a pending   *)
(* submission, creates a post, or merges newer metadata into a stored      *)
(* post.                                                                   *)
(*                                                                         *)
(* The store is a set of committed tables (db).  A running handler keeps   *)
(* the writes of its transaction in a write log (wlog); it reads the       *)
(* committed tables overlaid with its own log, the log is applied to db    *)
(* when con.transaction commits and dropped when the callback throws.      *)
(***************************************************************************)
EXTENDS Integers, Sequences, FiniteSets, TLC

\* ------------------------------------------------------------------ values
\* JavaScript's undefined and null for string-valued fields, null for Dates.
Undef == "undefined"
Null == "null"
NoDate == -1
Truthy(s) == s \notin {Undef, Null, ""}

\* ------------------------------------------------------------------ bounds
MaxEvents == 2          \* messages delivered in one behaviour
TickMs == 40000         \* the clock advances by 0 or TickMs between messages
T0 == 60000             \* clock value when the first message arrives
DateWidth == 6          \* digits of the fixed-width timestamp rendering

\* ------------------------------------------------------- program constants
Started == "STARTED"
Accepted == "ACCEPTED"
Rejected == "REJECTED"
GenericError == "GENERIC_ERROR"
ScoutIsAuthor == "SCOUT_IS_AUTHOR"
SubmissionFailErrorMessage ==
    {"GENERIC_ERROR", "PAYWALL", "MISSING_FIELDS", "SCOUT_IS_AUTHOR", "POST_EXISTS"}
\* reject_reason in SubmissionFailErrorMessage: the in operator finds the
\* object's own keys and the property names it inherits from Object.prototype.
ObjectPrototypeKeys ==
    {"constructor", "toString", "valueOf", "hasOwnProperty", "isPrototypeOf",
     "propertyIsEnumerable", "toLocaleString", "__proto__",
     "__defineGetter__", "__defineSetter__", "__lookupGetter__",
     "__lookupSetter__"}
InObject(key, ownKeys) == key \in ownKeys \cup ObjectPrototypeKeys

Article == "article"
Freeform == "freeform"
Share == "share"
Welcome == "welcome"
PostTypes == {Article, Freeform, Share, Welcome}
Crawler == "crawler"
CommunityPicks == "community_picks"
Squad == "squad"
UNKNOWN_SOURCE == "unknown"
bannedAuthors == {"@banned"}
MsPerMinute == 1000 * 60

\* Data.extra.keywords is a list of keywords; tagsStr is the comma-joined
\* list.  A string is a sequence of tokens here: the keywords and ",".
TagsNull == <<Null>>

RECURSIVE join(_)
join(ks) ==
    IF ks = <<>> THEN <<>>
    ELSE IF Len(ks) = 1 THEN <<ks[1]>>
    ELSE <<ks[1], ",">> \o join(Tail(ks))

RECURSIVE split(_)
split(s) ==
    IF s = <<>> THEN <<>>
    ELSE IF s[1] = "," THEN split(Tail(s))
    ELSE <<s[1]>> \o split(Tail(s))

SeqToSet(s) == {s[i] : i \in 1..Len(s)}

\* Date.prototype.toISOString renders a timestamp in fixed-width fields,
\* most significant first (years 0000-9999); the rendering here is the
\* DateWidth-digit decimal numeral of the millisecond count.
RECURSIVE Digits(_, _)
Digits(n, w) == IF w = 0 THEN <<>> ELSE Digits(n \div 10, w - 1) \o <<n % 10>>

toISOString(d) == Digits(d, DateWidth)

\* JavaScript's >= on two strings of digits: lexicographic order.
RECURSIVE StrGeq(_, _)
StrGeq(a, b) ==
    IF b = <<>> THEN TRUE
    ELSE IF a = <<>> THEN FALSE
    ELSE IF a[1] # b[1] THEN a[1] > b[1]
    ELSE StrGeq(Tail(a), Tail(b))

\* ------------------------------------------------------- read-only tables
\* User rows the author lookup can hit (twitter handle -> user id) and the
\* collections with their privacy flag.
Users == [u1tw |-> "u1"]
Sources == [a |-> [private |-> FALSE], sq |-> [private |-> TRUE]]
AllowedKeywords == {"a", "b", "c"}

findAuthor(creatorTwitter) ==
    IF Truthy(creatorTwitter) /\ creatorTwitter \in DOMAIN Users
    THEN Users[creatorTwitter] ELSE Null

mergeKeywords(keywords) ==
    [mergedKeywords |-> keywords,
     allowedKeywords |-> SelectSeq(keywords, LAMBDA k : k \in AllowedKeywords)]

\* ------------------------------------------------------------------ store
\* Column defaults of the post table, used for the columns an insert leaves
\* undefined.
PostDefaults ==
    [type |-> Article, shortId |-> Null, url |-> Null, canonicalUrl |-> Null,
     title |-> Null, image |-> Null, summary |-> Null,
     visible |-> TRUE, visibleAt |-> NoDate,
     metadataChangedAt |-> 0, createdAt |-> 0, score |-> 0,
     authorId |-> Null, creatorTwitter |-> Null, scoutId |-> Null,
     origin |-> Null, sourceId |-> UNKNOWN_SOURCE, private |-> FALSE,
     sentAnalyticsReport |-> FALSE, showOnFeed |-> TRUE,
     tagsStr |-> TagsNull, flags |-> <<>>, yggdrasilId |-> Null,
     sharedPostId |-> Null]

\* The fields whose value is a string (or undefined); the others always
\* hold a value when present.
StrFields ==
    {"id", "shortId", "url", "canonicalUrl", "title", "image", "summary",
     "authorId", "creatorTwitter", "scoutId", "origin", "sourceId",
     "private", "yggdrasilId"}

\* A partial entity: vals holds a value per field, keys the properties the
\* object has (Object.keys); a property can be present and undefined.
Defined(data) ==
    {f \in data.keys : f \in StrFields => data.vals[f] # Undef}

\* The value a column takes from a property of the partial entity (the
\* private property is true/false/undefined on the entity, a boolean column
\* in the table).
ColumnValue(data, f) ==
    IF f = "private" THEN data.vals.private = "true" ELSE data.vals[f]

\* The columns a write sets: undefined properties are skipped.
SetOf(data) ==
    [f \in (Defined(data) \cap DOMAIN PostDefaults) |-> ColumnValue(data, f)]

\* Mutant of MergeRow: the flags are replaced by the patch.
MergeRowReplace(row, set) ==
    [f \in DOMAIN row |-> IF f \in DOMAIN set THEN set[f] ELSE row[f]]

\* updateFlagsStatement: flags = flags || patch, the patch's keys win.
MergeRow(row, set) ==
    [f \in DOMAIN row |->
        IF f \in DOMAIN set
        THEN (IF f = "flags" THEN set.flags @@ row.flags ELSE set[f])
        ELSE row[f]]

\* One write of a transaction applied to the tables.
ApplyOp(s, w) ==
    CASE w.op = "subSave" ->
           [s EXCEPT !.submissions = (w.id :> w.row) @@ @]
      [] w.op = "subUpdate" ->
           [s EXCEPT !.submissions =
               [i \in DOMAIN @ |-> IF i = w.id THEN w.set @@ @[i] ELSE @[i]]]
      [] w.op = "postInsert" ->
           [s EXCEPT !.posts = (w.id :> w.row) @@ @]
      [] w.op = "postUpdate" ->
           [s EXCEPT !.posts =
               [i \in DOMAIN @ |->
                   IF i = w.id THEN MergeRow(@[i], w.set) ELSE @[i]]]
      [] w.op = "shareUpdate" ->
           [s EXCEPT !.posts =
               [i \in DOMAIN @ |->
                   IF @[i].type = Share /\ @[i].sharedPostId = w.sharedPostId
                   THEN MergeRow(@[i], w.set) ELSE @[i]]]
      [] w.op = "kwAdd" ->
           [s EXCEPT !.postKeywords = @ \cup {<<w.postId, k>> : k \in w.values}]
      [] w.op = "kwRemove" ->
           [s EXCEPT !.postKeywords = @ \ {<<w.postId, k>> : k \in w.values}]
      [] w.op = "qAdd" ->
           [s EXCEPT !.postQuestions = @ \cup {<<w.postId, q>> : q \in w.values}]

RECURSIVE ApplyAll(_, _)
ApplyAll(s, log) ==
    IF log = <<>> THEN s ELSE ApplyAll(ApplyOp(s, Head(log)), Tail(log))

\* ------------------------------------------------------------ normalization
Tri(b) == IF b THEN "true" ELSE "false"

\* he.decode on the titles of the model: the one title that holds an HTML
\* entity is decoded, the others hold none.
decode(title) == IF title = "Q&amp;A" THEN "Q&A" ELSE title

\* Mutant of getSourcePrivacy: the collection is always looked up through
\* the post.
getSourcePrivacyByPost(s, data) ==
    IF data.post_id \in DOMAIN s.posts
       /\ s.posts[data.post_id].sourceId \in DOMAIN Sources
    THEN Tri(Sources[s.posts[data.post_id].sourceId].private)
    ELSE Undef

\* source?.private of the collection the event names, else of the collection
\* of the post the event names; undefined when no row is found.
getSourcePrivacy(s, data) ==
    IF ~Truthy(data.source_id) \/ data.source_id = UNKNOWN_SOURCE
    THEN IF data.post_id \in DOMAIN s.posts
            /\ s.posts[data.post_id].sourceId \in DOMAIN Sources
         THEN Tri(Sources[s.posts[data.post_id].sourceId].private)
         ELSE Undef
    ELSE IF data.source_id \in DOMAIN Sources
         THEN Tri(Sources[data.source_id].private)
         ELSE Undef

\* The properties fixData puts on fixedData.
FixedKeys ==
    {"origin", "authorId", "creatorTwitter", "url", "canonicalUrl", "image",
     "sourceId", "title", "metadataChangedAt", "visible", "visibleAt",
     "tagsStr", "private", "sentAnalyticsReport", "summary", "showOnFeed",
     "flags", "yggdrasilId"}

\* Mutant of becomesVisible: an empty title counts as a title.
becomesVisibleDefined(title) == title # Undef

\* !!data?.title?.length
becomesVisible(title) == Truthy(title)

\* Mutant of creatorTwitter: the handle is taken as it comes.
creatorTwitterRaw(data) == data.creator_twitter

\* The handle fixData looks the author up with and stores: '' and '@' are
\* no handle.
creatorTwitter(data) ==
    IF data.creator_twitter = "" \/ data.creator_twitter = "@"
    THEN Null ELSE data.creator_twitter

\* The two new Date() of fixData's return expression are both evaluated
\* when the event carries no updated_at and has a title.
ReadsClockTwice(data) == data.updated_at = NoDate /\ becomesVisible(data.title)

\* The object fixData returns, from what its three awaited calls gave
\* (authorId, privacy, merged) and the clock values t and t2 that the
\* new Date() of metadataChangedAt and of visibleAt read.
fixData(data, authorId, privacy, merged, t, t2) ==
    LET visible == becomesVisible(data.title)
        sent == privacy = "true" \/ ~Truthy(authorId)
        tags == join(merged.allowedKeywords)
    IN  [mergedKeywords |-> merged.mergedKeywords,
         questions |-> data.questions,
         content_type |-> data.content_type,
         fixedData |->
           [keys |-> FixedKeys,
            vals |->
              [id |-> Undef, shortId |-> Undef, scoutId |-> Undef,
               createdAt |-> NoDate, score |-> 0,
               origin |-> data.origin,
               authorId |-> authorId,
               creatorTwitter |-> creatorTwitter(data),
               url |-> data.url,
               canonicalUrl |->
                   IF Truthy(data.canonical_url) THEN data.canonical_url
                   ELSE data.url,
               image |-> data.image,
               sourceId |-> data.source_id,
               title |-> IF Truthy(data.title) THEN decode(data.title)
                         ELSE data.title,
               metadataChangedAt |->
                   IF data.updated_at # NoDate THEN data.updated_at ELSE t,
               visible |-> visible,
               visibleAt |-> IF visible THEN t2 ELSE NoDate,
               tagsStr |-> IF tags = <<>> THEN TagsNull ELSE tags,
               private |-> privacy,
               sentAnalyticsReport |-> sent,
               summary |-> data.summary,
               showOnFeed |-> data.order = 0,
               flags |->
                   (IF privacy = Undef THEN <<>>
                    ELSE [private |-> privacy = "true"])
                   @@ [visible |-> visible,
                       showOnFeed |-> data.order = 0,
                       sentAnalyticsReport |-> sent],
               yggdrasilId |-> data.id]]]

\* ------------------------------------------------------------------ events
\* The Data payload (extra's members are flattened into the record).  An
\* absent member is undefined; an absent updated_at is NoDate and an absent
\* order is 0.
BaseEvent ==
    [id |-> "y1", post_id |-> Undef, url |-> "A", image |-> Undef,
     title |-> Undef, content_type |-> Undef, reject_reason |-> Undef,
     submission_id |-> Undef, source_id |-> Undef, origin |-> Undef,
     updated_at |-> NoDate, order |-> 0, keywords |-> <<>>,
     questions |-> <<>>, summary |-> Undef, canonical_url |-> Undef,
     creator_twitter |-> Undef]

RejectionEvents ==
    {[BaseEvent EXCEPT !.reject_reason = r, !.submission_id = sid,
                       !.post_id = o[1], !.creator_twitter = o[2],
                       !.title = o[3]] :
        r \in {"FAILED", "PAYWALL", "constructor"}, sid \in {Undef, "s1", "s9"},
        o \in {<<Undef, Undef, Undef>>, <<"p1", "@banned", "T">>}}

CreateEvents ==
    {[BaseEvent EXCEPT !.url = u[1], !.canonical_url = u[2], !.title = t,
                       !.submission_id = sc[1], !.creator_twitter = sc[2],
                       !.keywords = <<"a">>, !.questions = <<"q">>] :
        u \in {<<"A", Undef>>, <<"C", "B">>, <<"B", Undef>>},
        t \in {Undef, "", "Q&amp;A"},
        sc \in {<<Undef, Undef>>, <<"s1", Undef>>, <<"s1", "u1tw">>}}
    \cup {[BaseEvent EXCEPT !.url = "B", !.title = "T",
                            !.submission_id = "s1",
                            !.creator_twitter = "@banned"],
          [BaseEvent EXCEPT !.url = "B", !.title = "T",
                            !.submission_id = "s9"],
          [BaseEvent EXCEPT !.url = Null, !.title = "T"]}

UpdateEvents ==
    {[BaseEvent EXCEPT !.post_id = ic[1], !.content_type = ic[2],
                       !.title = t, !.updated_at = at,
                       !.keywords = <<"a">>, !.questions = <<"q">>] :
        ic \in {<<"p1", Undef>>, <<"p1", Freeform>>, <<"n1", Undef>>,
                <<"sh1", Share>>},
        t \in {Undef, "T"}, at \in {NoDate, 50000, 70000}}
    \cup {[BaseEvent EXCEPT !.post_id = "p1", !.title = "T",
                            !.updated_at = 70000,
                            !.creator_twitter = "@banned"]}

Events == RejectionEvents \cup CreateEvents \cup UpdateEvents

\* ------------------------------------------------------------------- state
Handlers == {"h1", "h2"}
NewIds == <<"n1", "n2", "n3", "n4">>

VARIABLES
    db,         \* the committed tables
    now,        \* the clock new Date() reads
    handled,    \* messages delivered so far
    nextId,     \* position of generateShortId in NewIds
    pc,         \* per handler: where it is in the handler
    msg,        \* per handler: the Data of the message it handles
    fx,         \* per handler: what fixData returned (data is mutated later)
    loc,        \* per handler: what its awaited reads returned (submission,
                \* databasePost, authorId, privacy)
    wlog,       \* per handler: the writes of its open transaction
    err,        \* per handler: the error caught (the step that threw)
    promise,    \* per handler: state of the promise handler() returned
    prev        \* the update event delivered before the current one

vars ==
    <<db, now, handled, nextId, pc, msg, fx, loc, wlog, err, promise, prev>>

NoEvent == [id |-> "none"]
NoFix == [content_type |-> "none"]
NoSub == [status |-> "none"]
NoRow == [type |-> "none"]
\* existingPost: whether the duplicate query of createPost answered a row.
NoLoc == [submission |-> NoSub, databasePost |-> NoRow,
          authorId |-> Undef, privacy |-> Undef, existingPost |-> FALSE]
NoPrev == [post_id |-> "none"]

\* The writes of the open transactions of the handlers in H, in some order.
RECURSIVE Pending(_)
Pending(H) ==
    IF H = {} THEN <<>>
    ELSE LET h == CHOOSE x \in H : TRUE
         IN  wlog[h] \o Pending(H \ {h})

\* Mutant of View: a transaction reads the writes of every open
\* transaction after its own.
ViewLatest(h) == ApplyAll(ApplyAll(db, wlog[h]), Pending(Handlers \ {h}))

\* Mutant of View: a transaction also reads the writes other open
\* transactions have not committed.
ViewDirty(h) == ApplyAll(ApplyAll(db, Pending(Handlers \ {h})), wlog[h])

\* What the open transaction of h reads: the committed rows and its writes.
View(h) == ApplyAll(db, wlog[h])

\* The stored posts before any message: one post p1 (an article or a
\* freeform post, visible or not yet) and one SharePost wrapping it.
InitPost(type, vis) ==
    [PostDefaults EXCEPT
        !.type = type, !.shortId = "p1", !.url = "A", !.canonicalUrl = "A",
        !.title = IF vis THEN "Old" ELSE Null,
        !.visible = vis, !.visibleAt = IF vis THEN 50000 ELSE NoDate,
        !.metadataChangedAt = 50000, !.createdAt = 50000, !.sourceId = "a",
        !.tagsStr = <<"b">>,
        !.flags = [visible |-> vis, private |-> FALSE, promoteToPublic |-> TRUE]]

InitShare(vis) ==
    [PostDefaults EXCEPT
        !.type = Share, !.shortId = "sh1", !.sharedPostId = "p1",
        !.visible = vis, !.visibleAt = IF vis THEN 50000 ELSE NoDate,
        !.metadataChangedAt = 50000, !.createdAt = 50000, !.sourceId = "sq",
        !.private = TRUE,
        !.flags = [visible |-> vis, private |-> TRUE]]

InitStores ==
    {[submissions |-> [s1 |-> [userId |-> "u1", status |-> Started,
                               reason |-> Null]],
      posts |-> [p1 |-> InitPost(type, vis), sh1 |-> InitShare(vis)],
      postKeywords |-> {<<"p1", "b">>},
      postQuestions |-> {}] :
        type \in {Article, Freeform}, vis \in BOOLEAN}

Init ==
    /\ db \in InitStores
    /\ now = T0
    /\ handled = 0
    /\ nextId = 1
    /\ pc = [h \in Handlers |-> "idle"]
    /\ msg = [h \in Handlers |-> NoEvent]
    /\ fx = [h \in Handlers |-> NoFix]
    /\ loc = [h \in Handlers |-> NoLoc]
    /\ wlog = [h \in Handlers |-> <<>>]
    /\ err = [h \in Handlers |-> "none"]
    /\ promise = [h \in Handlers |-> "none"]
    /\ prev = NoPrev

\* ----------------------------------------------------------------- helpers
Goto(h, p) == pc' = [pc EXCEPT ![h] = p]
Write(h, w) == wlog' = [wlog EXCEPT ![h] = Append(@, w)]

\* Reading a property of a partial entity: undefined once deleted.
Get(data, f) == IF f \in data.keys THEN data.vals[f] ELSE Undef
\* Assigning properties (vals is a record over some of the fields).
Assign(data, vals) ==
    [keys |-> data.keys \cup DOMAIN vals, vals |-> vals @@ data.vals]

\* ---------------------------------------------------------------- handler
\* A message arrives: handler() is called and opens the transaction.
Receive(h, E) ==
    /\ pc[h] = "idle"
    /\ handled < MaxEvents
    /\ \E e \in E, dt \in {0, TickMs} :
         /\ msg' = [msg EXCEPT ![h] = e]
         /\ now' = now + dt
    /\ handled' = handled + 1
    /\ promise' = [promise EXCEPT ![h] = "pending"]
    /\ Goto(h, "start")
    /\ UNCHANGED <<db, nextId, fx, loc, wlog, err, prev>>

\* Mutant of branch: the post id is looked at before the rejection reason
\* and the banned authors.
branchUpdateFirst(data) ==
    IF Truthy(data.post_id) THEN "updatePost"
    ELSE IF Truthy(data.reject_reason) THEN "handleRejection"
    ELSE IF data.creator_twitter \in bannedAuthors THEN "commit"
    ELSE "createPost"

\* Mutant of branch: the banned authors are not filtered out.
branchNoBan(data) ==
    IF Truthy(data.reject_reason) THEN "handleRejection"
    ELSE IF ~Truthy(data.post_id) THEN "createPost"
    ELSE "updatePost"

\* The branch the transaction callback takes for a payload.
branch(data) ==
    IF Truthy(data.reject_reason) THEN "handleRejection"
    ELSE IF data.creator_twitter \in bannedAuthors THEN "commit"
    ELSE IF ~Truthy(data.post_id) THEN "createPost"
    ELSE "updatePost"

\* The transaction callback up to its first awaited call: a rejection is
\* handled, a banned author's event is dropped, any other event goes into
\* fixData, which first awaits findAuthor.
handler(h) ==
    /\ pc[h] = "start"
    /\ Goto(h, IF branch(msg[h]) \in {"createPost", "updatePost"}
               THEN "findAuthor" ELSE branch(msg[h]))
    /\ UNCHANGED <<db, now, handled, nextId, msg, fx, loc, wlog, promise, err, prev>>

\* fixData: findAuthor settles; getSourcePrivacy is called.
fixDataFindAuthor(h) ==
    /\ pc[h] = "findAuthor"
    /\ loc' = [loc EXCEPT ![h].authorId = findAuthor(creatorTwitter(msg[h]))]
    /\ Goto(h, "getSourcePrivacy")
    /\ UNCHANGED <<db, now, handled, nextId, msg, fx, wlog, promise, err, prev>>

\* fixData: getSourcePrivacy settles, with the privacy its query found or,
\* when the query rejected, with undefined (its catch clause logs the error
\* and returns nothing); mergeKeywords is called.
fixDataSourcePrivacy(h) ==
    /\ pc[h] = "getSourcePrivacy"
    /\ \E privacy \in {getSourcePrivacy(View(h), msg[h]), Undef} :
          loc' = [loc EXCEPT ![h].privacy = privacy]
    /\ Goto(h, "mergeKeywords")
    /\ UNCHANGED <<db, now, handled, nextId, msg, fx, wlog, promise, err, prev>>

\* fixData: mergeKeywords settles and fixData returns its object, reading
\* the clock for metadataChangedAt and again for visibleAt (a millisecond
\* may have passed in between); the callback takes the create or the update
\* branch.
fixDataMergeKeywords(h) ==
    /\ pc[h] = "mergeKeywords"
    /\ \E ms \in (IF ReadsClockTwice(msg[h]) THEN {0, 1} ELSE {0}) :
          /\ now' = now + ms
          /\ fx' = [fx EXCEPT ![h] =
                      fixData(msg[h], loc[h].authorId, loc[h].privacy,
                              mergeKeywords(msg[h].keywords), now, now + ms)]
    /\ Goto(h, branch(msg[h]))
    /\ UNCHANGED <<db, handled, nextId, msg, loc, wlog, promise, err, prev>>

\* ---------------------------------------------------------- handleRejection
rejectionReason(reject_reason) ==
    IF InObject(reject_reason, SubmissionFailErrorMessage) THEN reject_reason
    ELSE GenericError

findSubmission(s, id) ==
    IF id \in DOMAIN s.submissions THEN s.submissions[id] ELSE NoSub

\* submission?.status === SubmissionStatus.Started
isStarted(submission) == submission.status = Started

\* The submission lookup and the test of its status.
handleRejection(h) ==
    /\ pc[h] = "handleRejection"
    /\ LET data == msg[h]
           submission == findSubmission(View(h), data.submission_id)
       IN  IF ~Truthy(data.submission_id)
           THEN Goto(h, "commit") /\ UNCHANGED loc
           ELSE /\ loc' = [loc EXCEPT ![h].submission = submission]
                /\ Goto(h, IF isStarted(submission)
                           THEN "saveRejection" ELSE "commit")
    /\ UNCHANGED <<db, now, handled, nextId, msg, fx, wlog, promise, err, prev>>

\* submissionRepo.save({...submission, status, reason}).
saveRejection(h) ==
    /\ pc[h] = "saveRejection"
    /\ Write(h, [op |-> "subSave", id |-> msg[h].submission_id,
                 row |-> [loc[h].submission EXCEPT
                            !.status = Rejected,
                            !.reason = rejectionReason(msg[h].reject_reason)]])
    /\ Goto(h, "commit")
    /\ UNCHANGED <<db, now, handled, nextId, msg, fx, loc, promise, err, prev>>

\* --------------------------------------------------------------- createPost
\* Mutant of existingPost: no stored post is found.
existingPostNever(s, data) == FALSE

\* SQL's = on two values: a comparison with NULL matches no row.
SqlEq(column, parameter) ==
    column # Null /\ parameter \notin {Null, Undef} /\ column = parameter

\* The four-way duplicate query over the post table.
existingPost(s, data) ==
    \E i \in DOMAIN s.posts :
        \/ SqlEq(s.posts[i].url, data.vals.url)
        \/ SqlEq(s.posts[i].url, data.vals.canonicalUrl)
        \/ SqlEq(s.posts[i].canonicalUrl, data.vals.url)
        \/ SqlEq(s.posts[i].canonicalUrl, data.vals.canonicalUrl)

createPost(h) ==
    /\ pc[h] = "createPost"
    /\ LET found == existingPost(View(h), fx[h].fixedData)
       IN  /\ loc' = [loc EXCEPT ![h].existingPost = found]
           /\ Goto(h, IF found THEN "commit"
                      ELSE IF Truthy(msg[h].submission_id) THEN "createSubmission"
                      ELSE "generateShortId")
    /\ UNCHANGED <<db, now, handled, nextId, msg, fx, wlog, promise, err, prev>>

\* Mutant of scoutIsAuthor: the guard never fires.
scoutIsAuthorNever(data, submission) == FALSE

\* data.authorId === submission.userId
scoutIsAuthor(data, submission) == data.vals.authorId = submission.userId

\* The submission is loaded; when there is one its update is called, else
\* generateShortId.
createSubmission(h) ==
    /\ pc[h] = "createSubmission"
    /\ LET submission == findSubmission(View(h), msg[h].submission_id)
       IN  /\ loc' = [loc EXCEPT ![h].submission = submission]
           /\ Goto(h, IF submission = NoSub THEN "generateShortId"
                      ELSE "updateSubmission")
    /\ UNCHANGED <<db, now, handled, nextId, msg, fx, wlog, promise, err, prev>>

\* The update of the loaded submission: rejected (the scout is the author,
\* createPost returns) or accepted (the scout is assigned).
updateSubmission(h) ==
    /\ pc[h] = "updateSubmission"
    /\ LET submissionId == msg[h].submission_id
           submission == loc[h].submission
           data == fx[h].fixedData
       IN  IF scoutIsAuthor(data, submission)
           THEN /\ Write(h, [op |-> "subUpdate", id |-> submissionId,
                             set |-> [status |-> Rejected,
                                      reason |-> ScoutIsAuthor]])
                /\ Goto(h, "commit")
                /\ UNCHANGED fx
           ELSE /\ Write(h, [op |-> "subUpdate", id |-> submissionId,
                             set |-> [status |-> Accepted]])
                /\ fx' = [fx EXCEPT ![h].fixedData =
                            Assign(data, [scoutId |-> submission.userId])]
                /\ Goto(h, "generateShortId")
    /\ UNCHANGED <<db, now, handled, nextId, msg, loc, promise, err, prev>>

\* Mutant of createOrigin: the scout is not looked at.
createOriginNoScout(data) ==
    IF data.vals.origin \in {Undef, Null} THEN Crawler ELSE data.vals.origin

\* data.origin of the new post.
createOrigin(data) ==
    IF Truthy(Get(data, "scoutId")) THEN CommunityPicks
    ELSE IF data.vals.origin \in {Undef, Null} THEN Crawler
    ELSE data.vals.origin

\* The row an insert of the partial entity stores.
NewRow(type, data) == MergeRow([PostDefaults EXCEPT !.type = type], SetOf(data))

\* Mutant of createScore: the minutes are rounded to the nearest.
createScoreRound(postCreatedAt) ==
    (postCreatedAt + (MsPerMinute \div 2)) \div MsPerMinute

\* Math.floor(postCreatedAt.getTime() / (1000 * 60))
createScore(postCreatedAt) == postCreatedAt \div MsPerMinute

\* generateShortId settles: the clock is read, the remaining assignments
\* are made and repository.create is called.
generateShortId(h) ==
    /\ pc[h] = "generateShortId"
    /\ nextId <= Len(NewIds)
    /\ LET postId == NewIds[nextId]
           postCreatedAt == now
       IN  fx' = [fx EXCEPT ![h].fixedData =
                    Assign(@, [id |-> postId, shortId |-> postId,
                               createdAt |-> postCreatedAt,
                               score |-> createScore(postCreatedAt),
                               origin |-> createOrigin(@)])]
    /\ nextId' = nextId + 1
    /\ Goto(h, "create")
    /\ UNCHANGED <<db, now, handled, msg, loc, wlog, promise, err, prev>>

\* The awaited repository.create gives the entity; entityManager.save is
\* called.
createEntity(h) ==
    /\ pc[h] = "create"
    /\ Goto(h, "createSave")
    /\ UNCHANGED <<db, now, handled, nextId, msg, fx, loc, wlog, promise, err, prev>>

\* entityManager.save inserts the post.
createSave(h) ==
    /\ pc[h] = "createSave"
    /\ Write(h, [op |-> "postInsert", id |-> fx[h].fixedData.vals.id,
                 row |-> NewRow(Article, fx[h].fixedData)])
    /\ Goto(h, "createKeywords")
    /\ UNCHANGED <<db, now, handled, nextId, msg, fx, loc, promise, err, prev>>

addKeywords(h, mergedKeywords, postId) ==
    IF mergedKeywords = <<>> THEN UNCHANGED wlog
    ELSE Write(h, [op |-> "kwAdd", postId |-> postId,
                   values |-> SeqToSet(mergedKeywords)])

addQuestions(h, questions, postId) ==
    IF questions = <<>> THEN UNCHANGED wlog
    ELSE Write(h, [op |-> "qAdd", postId |-> postId,
                   values |-> SeqToSet(questions)])

createKeywords(h) ==
    /\ pc[h] = "createKeywords"
    /\ addKeywords(h, fx[h].mergedKeywords, fx[h].fixedData.vals.id)
    /\ Goto(h, "createQuestions")
    /\ UNCHANGED <<db, now, handled, nextId, msg, fx, loc, promise, err, prev>>

createQuestions(h) ==
    /\ pc[h] = "createQuestions"
    /\ addQuestions(h, fx[h].questions, fx[h].fixedData.vals.id)
    /\ Goto(h, "commit")
    /\ UNCHANGED <<db, now, handled, nextId, msg, fx, loc, promise, err, prev>>

\* --------------------------------------------------------------- updatePost
\* Mutant of allowedFieldsMapping: metadataChangedAt is not allowed.
allowedFieldsMappingNoDate ==
    [freeform |-> {"contentCuration", "description", "readTime", "summary",
                   "tagsStr"}]

allowedFieldsMapping ==
    [freeform |-> {"contentCuration", "description", "metadataChangedAt",
                   "readTime", "summary", "tagsStr"}]

\* content_type = PostType.Article when the event carries none; the table
\* maps a type to the entity (and so the rows) the lookup reads.
contentTypeFromPostType(content_type) ==
    IF content_type = Undef THEN Article ELSE content_type

\* Mutant of findPost: the post is found whatever its type.
findPostAnyType(s, postType, id) ==
    IF id \in DOMAIN s.posts THEN s.posts[id] ELSE NoRow

findPost(s, postType, id) ==
    IF id \in DOMAIN s.posts /\ s.posts[id].type = postType
    THEN s.posts[id] ELSE NoRow

\* Mutant of isStale: only a missing post discards the update.
isStaleMissing(databasePost, data) == databasePost = NoRow

\* Mutant of isStale: an update as old as the stored metadata is applied.
isStaleStrict(databasePost, data) ==
    \/ databasePost = NoRow
    \/ /\ StrGeq(toISOString(databasePost.metadataChangedAt),
                  toISOString(data.vals.metadataChangedAt))
       /\ databasePost.metadataChangedAt # data.vals.metadataChangedAt

\* The update is discarded: no post, or stored metadata not older.
isStale(databasePost, data) ==
    \/ databasePost = NoRow
    \/ StrGeq(toISOString(databasePost.metadataChangedAt),
              toISOString(data.vals.metadataChangedAt))

\* Mutant of updateBecameVisible: a title makes the post visible, whether it
\* was visible or not.
updateBecameVisibleTitle(content_type, databasePost, title) ==
    IF content_type = Freeform THEN databasePost.visible ELSE Truthy(title)

\* Mutant of updateBecameVisible: a visible post stays visible.
updateBecameVisibleCarry(content_type, databasePost, title) ==
    databasePost.visible \/ (content_type # Freeform /\ Truthy(title))

updateBecameVisible(content_type, databasePost, title) ==
    IF content_type = Freeform THEN databasePost.visible
    ELSE ~databasePost.visible /\ Truthy(title)

\* Mutant of updateVisibleAt: the stored visibleAt is kept when the post is
\* not visible.
updateVisibleAtKeep(visible, databasePost, data) ==
    IF databasePost.visibleAt # NoDate THEN databasePost.visibleAt
    ELSE IF visible THEN data.vals.metadataChangedAt ELSE NoDate

\* data.visibleAt of an update.
updateVisibleAt(visible, databasePost, data) ==
    IF visible
    THEN (IF databasePost.visibleAt # NoDate THEN databasePost.visibleAt
          ELSE data.vals.metadataChangedAt)
    ELSE NoDate

\* Mutant of stripFields: no property is deleted.
stripFieldsNone(content_type, data) == data

\* Object.keys(data).forEach(delete) for the types with an allowlist.
stripFields(content_type, data) ==
    IF content_type \in DOMAIN allowedFieldsMapping
    THEN LET allowedFields ==
                 {"id", "visible", "visibleAt", "flags", "yggdrasilId"}
                 \cup allowedFieldsMapping[content_type]
         IN  [keys |-> data.keys \cap allowedFields,
              vals |-> [f \in DOMAIN data.vals |->
                          IF f \in StrFields /\ f \notin allowedFields
                          THEN Undef ELSE data.vals[f]]]
    ELSE data

\* Mutant of squadSourceId: the origin does not decide the collection.
squadSourceIdKeep(data) == data

\* if (data?.origin === PostOrigin.Squad) data.sourceId = UNKNOWN_SOURCE
squadSourceId(data) ==
    IF data.vals.origin = Squad
    THEN Assign(data, [sourceId |-> UNKNOWN_SOURCE])
    ELSE data

\* The partial entity after the assignments that follow the staleness test
\* and the stripping.
mergeData(content_type, databasePost, data1, id) ==
    LET title == IF Truthy(data1.vals.title) THEN data1.vals.title
                 ELSE databasePost.title
        visible == updateBecameVisible(content_type, databasePost, title)
        data2 == Assign(data1,
                   [id |-> id,
                    title |-> title,
                    visible |-> visible,
                    visibleAt |-> updateVisibleAt(visible, databasePost, data1),
                    sourceId |-> IF Truthy(data1.vals.sourceId)
                                 THEN data1.vals.sourceId
                                 ELSE databasePost.sourceId])
    IN  stripFields(content_type, data2)

\* The lookup settles: the collection of a squad event is assigned, then
\* the staleness test returns or the incoming fields are merged and the
\* update is called.
updatePost(h) ==
    /\ pc[h] = "updatePost"
    /\ LET id == msg[h].post_id
           content_type == contentTypeFromPostType(fx[h].content_type)
           databasePost == findPost(View(h), content_type, id)
           data == squadSourceId(fx[h].fixedData)
       IN  /\ loc' = [loc EXCEPT ![h].databasePost = databasePost]
           /\ IF isStale(databasePost, data)
              THEN /\ fx' = [fx EXCEPT ![h].fixedData = data]
                   /\ Goto(h, "commit")
              ELSE /\ fx' = [fx EXCEPT ![h].fixedData =
                               mergeData(content_type, databasePost, data, id)]
                   /\ Goto(h, "updateSave")
    /\ UNCHANGED <<db, now, handled, nextId, msg, wlog, promise, err, prev>>

\* The object handed to updateFlagsStatement: undefined members are not
\* serialized.
flagsPatch(flags, over) ==
    LET drop == {k \in DOMAIN over : over[k] = Undef}
    IN  [k \in (DOMAIN flags \cup DOMAIN over) \ drop |->
            IF k \in DOMAIN over THEN over[k] = "true" ELSE flags[k]]

\* Mutant of tagsChanged: the keywords are always re-indexed.
tagsChangedAlways(databasePost, data) == TRUE

\* Mutant of tagsChanged: the tag string is compared with itself.
tagsChangedNever(databasePost, data) == data.vals.tagsStr # data.vals.tagsStr

\* databasePost.tagsStr !== data.tagsStr
tagsChanged(databasePost, data) == databasePost.tagsStr # data.vals.tagsStr

\* databasePost.tagsStr?.length
hasTags(databasePost) ==
    databasePost.tagsStr # TagsNull /\ databasePost.tagsStr # <<>>

\* The call that follows the post update and the share cascade.
AfterPostUpdate(h) ==
    IF tagsChanged(loc[h].databasePost, fx[h].fixedData)
    THEN (IF hasTags(loc[h].databasePost) THEN "removeKeywords"
          ELSE "updateKeywords")
    ELSE "updateQuestions"

\* repository.update of the post row.
updateSave(h) ==
    /\ pc[h] = "updateSave"
    /\ LET data == fx[h].fixedData
           set == SetOf(data)
       IN  Write(h, [op |-> "postUpdate", id |-> msg[h].post_id,
                     set |-> [flags |-> flagsPatch(data.vals.flags,
                                  [visible |-> Tri(data.vals.visible)])]
                             @@ set])
    /\ Goto(h, IF fx[h].fixedData.vals.visible THEN "updateShare"
               ELSE AfterPostUpdate(h))
    /\ UNCHANGED <<db, now, handled, nextId, msg, fx, loc, promise, err, prev>>

\* The cascade to the SharePosts that wrap the post.
updateShare(h) ==
    /\ pc[h] = "updateShare"
    /\ LET data == fx[h].fixedData
           private == Get(data, "private")
       IN  Write(h, [op |-> "shareUpdate", sharedPostId |-> data.vals.id,
                     set |-> [visible |-> TRUE,
                              visibleAt |-> data.vals.visibleAt,
                              flags |-> flagsPatch(data.vals.flags,
                                           [private |-> private,
                                            visible |-> "true"])]
                             @@ (IF private = Undef THEN <<>>
                                 ELSE [private |-> private = "true"])])
    /\ Goto(h, AfterPostUpdate(h))
    /\ UNCHANGED <<db, now, handled, nextId, msg, fx, loc, promise, err, prev>>

\* removeKeywords of the stored tag string.
removeKeywords(h) ==
    /\ pc[h] = "removeKeywords"
    /\ Write(h, [op |-> "kwRemove", postId |-> fx[h].fixedData.vals.id,
                 values |-> SeqToSet(split(loc[h].databasePost.tagsStr))])
    /\ Goto(h, "updateKeywords")
    /\ UNCHANGED <<db, now, handled, nextId, msg, fx, loc, promise, err, prev>>

\* addKeywords of the event's merged keywords.
updateKeywords(h) ==
    /\ pc[h] = "updateKeywords"
    /\ addKeywords(h, fx[h].mergedKeywords, fx[h].fixedData.vals.id)
    /\ Goto(h, "updateQuestions")
    /\ UNCHANGED <<db, now, handled, nextId, msg, fx, loc, promise, err, prev>>

updateQuestions(h) ==
    /\ pc[h] = "updateQuestions"
    /\ addQuestions(h, fx[h].questions, fx[h].fixedData.vals.id)
    /\ Goto(h, "commit")
    /\ UNCHANGED <<db, now, handled, nextId, msg, fx, loc, promise, err, prev>>

\* ------------------------------------------------------------ transaction
\* The positions inside con.transaction: a store operation is pending.
InTransaction ==
    {"start", "handleRejection", "saveRejection", "findAuthor",
     "getSourcePrivacy", "mergeKeywords", "createPost", "createSubmission",
     "updateSubmission", "generateShortId", "create", "createSave",
     "createKeywords", "createQuestions", "updatePost", "updateSave",
     "updateShare", "removeKeywords", "updateKeywords", "updateQuestions",
     "commit"}

\* What the store holds once the transaction of a callback that returned
\* has committed its writes.
commit(s, log) == ApplyAll(s, log)

\* Mutant of abort: the submission writes were made outside the transaction
\* and stay.
abortKeepSubmission(s, log) ==
    ApplyAll(s, SelectSeq(log, LAMBDA w : w.op \in {"subSave", "subUpdate"}))

\* Mutant of abort: the status of the submission was written outside the
\* transaction and stays.
abortKeepAccepted(s, log) ==
    ApplyAll(s, SelectSeq(log, LAMBDA w : w.op = "subUpdate"))

\* Mutant of abort: the writes made before the failure stay.
abortPartial(s, log) == ApplyAll(s, log)

\* What the store holds once the transaction of a callback that threw has
\* rolled back.
abort(s, log) == s

\* The callback returned: the transaction commits.
Commit(h) ==
    /\ pc[h] = "commit"
    /\ db' = commit(db, wlog[h])
    /\ wlog' = [wlog EXCEPT ![h] = <<>>]
    /\ promise' = [promise EXCEPT ![h] = "resolved"]
    /\ Goto(h, "done")
    /\ UNCHANGED <<now, handled, nextId, msg, fx, loc, err, prev>>

\* Mutant of catchClause: the error is thrown again.
catchRethrow == "rejected"

\* What the catch clause makes of the handler's promise: it logs the error
\* and returns.
catchClause == "resolved"

\* An awaited call (or the commit) rejects: the transaction rolls back,
\* the error reaches the handler's catch clause and the handler returns.
\* The rejection of getSourcePrivacy's query is caught inside
\* getSourcePrivacy and is an outcome of fixDataSourcePrivacy.
Throw(h) ==
    /\ pc[h] \in InTransaction \ {"getSourcePrivacy"}
    /\ db' = abort(db, wlog[h])
    /\ wlog' = [wlog EXCEPT ![h] = <<>>]
    /\ err' = [err EXCEPT ![h] = pc[h]]
    /\ promise' = [promise EXCEPT ![h] = catchClause]
    /\ Goto(h, "done")
    /\ UNCHANGED <<now, handled, nextId, msg, fx, loc, prev>>

\* The handler keeps no state between messages.
Forget(h) ==
    /\ pc[h] = "done"
    /\ Goto(h, "idle")
    /\ msg' = [msg EXCEPT ![h] = NoEvent]
    /\ fx' = [fx EXCEPT ![h] = NoFix]
    /\ loc' = [loc EXCEPT ![h] = NoLoc]
    /\ err' = [err EXCEPT ![h] = "none"]
    /\ promise' = [promise EXCEPT ![h] = "none"]
    /\ UNCHANGED <<db, now, handled, nextId, wlog>>

\* The transport takes the settled promise.
Return(h) ==
    /\ Forget(h)
    /\ UNCHANGED prev

\* metadataChangedAt as fixData resolves it at time t.
EventChangedAt(data, t) ==
    IF data.updated_at # NoDate THEN data.updated_at ELSE t

IsUpdateEvent(data) == ~Truthy(data.reject_reason) /\ Truthy(data.post_id)
IsCreateEvent(data) ==
    /\ data # NoEvent
    /\ ~Truthy(data.reject_reason)
    /\ ~Truthy(data.post_id)

\* Return that also records the update event just handled: the post and
\* the content type it names, its metadataChangedAt, and whether it passed
\* the banned-author filter and committed.
ReturnUpdate(h) ==
    /\ Forget(h)
    /\ prev' = IF IsUpdateEvent(msg[h])
               THEN [post_id |-> msg[h].post_id,
                     content_type |->
                         contentTypeFromPostType(msg[h].content_type),
                     metadataChangedAt |->
                         IF fx[h] # NoFix
                         THEN fx[h].fixedData.vals.metadataChangedAt
                         ELSE EventChangedAt(msg[h], now),
                     checked |-> /\ err[h] = "none"
                                 /\ branch(msg[h]) = "updatePost"]
               ELSE NoPrev

Step(h) ==
    \/ handler(h)
    \/ fixDataFindAuthor(h)
    \/ fixDataSourcePrivacy(h)
    \/ fixDataMergeKeywords(h)
    \/ handleRejection(h)
    \/ saveRejection(h)
    \/ createPost(h)
    \/ createSubmission(h)
    \/ updateSubmission(h)
    \/ generateShortId(h)
    \/ createEntity(h)
    \/ createSave(h)
    \/ createKeywords(h)
    \/ createQuestions(h)
    \/ updatePost(h)
    \/ updateSave(h)
    \/ updateShare(h)
    \/ removeKeywords(h)
    \/ updateKeywords(h)
    \/ updateQuestions(h)
    \/ Commit(h)

\* Messages are handled one at a time by one handler.
Next ==
    \/ Receive("h1", Events)
    \/ Step("h1")
    \/ Throw("h1")
    \/ Return("h1")

Spec == Init /\ [][Next]_vars

\* Events of every branch, handled with the steps of a running handler taken
\* eventually: an awaited store operation settles.
LiveEvents ==
    {e \in Events :
        \/ e.reject_reason = "FAILED" /\ e.post_id = Undef
                                      /\ e.submission_id # "s9"
        \/ ~Truthy(e.reject_reason) /\ e.creator_twitter \in bannedAuthors
        \/ IsCreateEvent(e) /\ e.title = "Q&amp;A" /\ e.url # "C"
                            /\ e.submission_id = "s1"
        \/ e.post_id = "p1" /\ e.title = "T" /\ e.content_type = Undef
                            /\ e.updated_at # NoDate}

NextLive ==
    \/ Receive("h1", LiveEvents)
    \/ Step("h1")
    \/ Throw("h1")
    \/ Return("h1")

LiveSpec == Init /\ [][NextLive]_vars /\ WF_vars(Step("h1"))

\* Update events (with a few others) in sequence, the previous update
\* event remembered.
StaleEvents ==
    UpdateEvents
    \cup {e \in CreateEvents : e.url = "B" /\ e.title # ""}
    \cup {e \in RejectionEvents : e.post_id = Undef /\ e.reject_reason = "PAYWALL"}

NextStale ==
    \/ Receive("h1", StaleEvents)
    \/ Step("h1")
    \/ Throw("h1")
    \/ ReturnUpdate("h1")

SpecStale == Init /\ [][NextStale]_vars

\* Time passes while a message is handled: the new Date() of createPost
\* reads the clock later than the new Date() of fixData.
Tick ==
    /\ now + TickMs <= T0 + MaxEvents * TickMs
    /\ now' = now + TickMs
    /\ UNCHANGED <<db, handled, nextId, pc, msg, fx, loc, wlog, err,
                   promise, prev>>

\* Create events for urls that are not stored and do not overlap (and one
\* for the stored url), with events of the other branches, handled while
\* the clock runs.
ScoreEvents ==
    {[BaseEvent EXCEPT !.url = u, !.title = t,
                       !.keywords = <<"a">>, !.questions = <<"q">>] :
        u \in {"A", "B", "D"}, t \in {Undef, "Q&amp;A"}}
    \cup LiveEvents

NextScore ==
    \/ Receive("h1", ScoreEvents)
    \/ Step("h1")
    \/ Throw("h1")
    \/ Return("h1")
    \/ Tick

SpecScore == Init /\ [][NextScore]_vars


\* Update events that declare the freeform type and carry a value for every
\* field of the payload, with events of the other branches.
FreeformEvents ==
    {[BaseEvent EXCEPT !.post_id = "p1", !.content_type = Freeform,
                       !.url = "Z", !.canonical_url = "Y", !.title = t,
                       !.image = "img", !.source_id = src, !.origin = o,
                       !.creator_twitter = "u1tw", !.summary = "S",
                       !.order = 1, !.updated_at = at,
                       !.keywords = <<"a", "b">>, !.questions = <<"q">>] :
        t \in {Undef, "T"}, src \in {Undef, "sq"}, o \in {Undef, Squad},
        at \in {50000, 70000}}
    \cup LiveEvents

NextFreeform ==
    \/ Receive("h1", FreeformEvents)
    \/ Step("h1")
    \/ Throw("h1")
    \/ Return("h1")

SpecFreeform == Init /\ [][NextFreeform]_vars


\* Create events that store a post tagged a,b or tagged a with the keyword x
\* outside the vocabulary, and update events for that post with other
\* keyword lists, with events of the other branches.
KeywordEvents ==
    {[BaseEvent EXCEPT !.url = "B", !.title = "T",
                       !.keywords = <<"a", "b">>, !.questions = <<"q">>],
     [BaseEvent EXCEPT !.url = "B", !.title = "T",
                       !.keywords = <<"a", "x">>]}
    \cup {[BaseEvent EXCEPT !.post_id = "n1", !.url = "B", !.title = "T",
                            !.updated_at = at, !.keywords = ks] :
            at \in {NoDate, 50000, 70000},
            ks \in {<<"b", "c">>, <<"a", "b">>, <<"c">>, <<>>}}
    \cup LiveEvents

NextKeywords ==
    \/ Receive("h1", KeywordEvents)
    \/ Step("h1")
    \/ Throw("h1")
    \/ Return("h1")

SpecKeywords == Init /\ [][NextKeywords]_vars


\* Create events with and without a submission, an author and an origin,
\* with events of the other branches.
AcceptEvents ==
    {[BaseEvent EXCEPT !.url = "B", !.title = "T", !.submission_id = sid,
                       !.creator_twitter = cr, !.origin = o,
                       !.keywords = <<"a">>, !.questions = <<"q">>] :
        sid \in {Undef, "s1", "s9"}, cr \in {Undef, "u1tw"},
        o \in {Undef, Squad}}
    \cup LiveEvents

NextAccept ==
    \/ Receive("h1", AcceptEvents)
    \/ Step("h1")
    \/ Throw("h1")
    \/ Return("h1")

SpecAccept == Init /\ [][NextAccept]_vars


\* Two handler invocations run concurrently, each in its own transaction:
\* the driver hands the next message to a handler while another is still
\* awaiting a store operation.  The store checks no uniqueness here.
RaceEvents ==
    {e \in LiveEvents :
        /\ Truthy(e.reject_reason) => e.submission_id = "s1"
        /\ e.creator_twitter \in bannedAuthors => ~Truthy(e.post_id)
        /\ IsCreateEvent(e) => e.url = "B"}
    \cup {[BaseEvent EXCEPT !.post_id = "p1", !.title = "T2",
                            !.keywords = <<"a">>]}

NextRace ==
    \E h \in Handlers :
        \/ Receive(h, RaceEvents)
        \/ Step(h)
        \/ Throw(h)
        \/ Return(h)

SpecRace == Init /\ [][NextRace]_vars


\* ---- the store with unique indexes on url and on canonicalUrl
\* Some other row of s holds the url or the canonicalUrl (null excepted).
UniqueConflict(s, id, url, canonicalUrl) ==
    \E j \in DOMAIN s.posts \ {id} :
        \/ url \notin {Undef, Null} /\ s.posts[j].url = url
        \/ canonicalUrl \notin {Undef, Null}
              /\ s.posts[j].canonicalUrl = canonicalUrl

\* The post write h is about to make: its row id and the url and
\* canonicalUrl it sets (undefined when it sets none).
PostWrite(h) ==
    [id |-> IF pc[h] = "createSave" THEN fx[h].fixedData.vals.id
            ELSE msg[h].post_id,
     url |-> Get(fx[h].fixedData, "url"),
     canonicalUrl |-> Get(fx[h].fixedData, "canonicalUrl")]

\* The write violates an index against a row the transaction can see.
uniqueError(h) ==
    LET w == PostWrite(h)
    IN  UniqueConflict(View(h), w.id, w.url, w.canonicalUrl)

\* The write has to wait for another open transaction that holds the value.
uniqueWait(h) ==
    LET w == PostWrite(h)
    IN  UniqueConflict(ApplyAll(db, Pending(Handlers \ {h})),
                       w.id, w.url, w.canonicalUrl)

createSaveUnique(h) ==
    /\ pc[h] = "createSave"
    /\ ~uniqueError(h) /\ ~uniqueWait(h)
    /\ createSave(h)

updateSaveUnique(h) ==
    /\ pc[h] = "updateSave"
    /\ ~uniqueError(h) /\ ~uniqueWait(h)
    /\ updateSave(h)

\* The insert or update is refused by the index: the store operation
\* rejects.
uniqueViolation(h) ==
    /\ pc[h] \in {"createSave", "updateSave"}
    /\ uniqueError(h)
    /\ Throw(h)

StepUnique(h) ==
    \/ handler(h)
    \/ fixDataFindAuthor(h)
    \/ fixDataSourcePrivacy(h)
    \/ fixDataMergeKeywords(h)
    \/ handleRejection(h)
    \/ saveRejection(h)
    \/ createPost(h)
    \/ createSubmission(h)
    \/ updateSubmission(h)
    \/ generateShortId(h)
    \/ createEntity(h)
    \/ createSaveUnique(h)
    \/ createKeywords(h)
    \/ createQuestions(h)
    \/ updatePost(h)
    \/ updateSaveUnique(h)
    \/ updateShare(h)
    \/ removeKeywords(h)
    \/ updateKeywords(h)
    \/ updateQuestions(h)
    \/ uniqueViolation(h)
    \/ Commit(h)

NextUnique ==
    \E h \in Handlers :
        \/ Receive(h, RaceEvents)
        \/ StepUnique(h)
        \/ Throw(h)
        \/ Return(h)

\* Concurrent handlers over the store with the unique indexes.
SpecUnique == Init /\ [][NextUnique]_vars

\* Two create events for urls no post holds and two update events that give
\* the second created post the url B: one with the canonicalUrl C, one with
\* no canonical_url (its canonicalUrl is then B as well).
DedupEvents ==
    {[BaseEvent EXCEPT !.url = "C", !.canonical_url = "B", !.title = "T"],
     [BaseEvent EXCEPT !.url = "D", !.title = "T"]}
    \cup {[BaseEvent EXCEPT !.post_id = "n2", !.url = "B",
                            !.canonical_url = c, !.title = "T",
                            !.updated_at = 70000] : c \in {"C", Undef}}
    \cup LiveEvents

\* A message arrives at h1, one message more than in the other
\* specifications (two creates and an update of the second created post).
ReceiveDedup ==
    /\ pc["h1"] = "idle"
    /\ handled < MaxEvents + 1
    /\ \E e \in DedupEvents :
         msg' = [msg EXCEPT !["h1"] = e]
    /\ handled' = handled + 1
    /\ promise' = [promise EXCEPT !["h1"] = "pending"]
    /\ Goto("h1", "start")
    /\ UNCHANGED <<db, now, nextId, fx, loc, wlog, err, prev>>

NextDedup ==
    \/ ReceiveDedup
    \/ StepUnique("h1")
    \/ Throw("h1")
    \/ Return("h1")

\* Messages handled one at a time over the store with the unique indexes.
SpecDedup == Init /\ [][NextDedup]_vars


\* Return that also records the event just handled and whether its
\* transaction committed, so that a redelivery of it can be recognised.
ReturnEvent(h) ==
    /\ Forget(h)
    /\ prev' = [post_id |-> msg[h].post_id, event |-> msg[h],
                committed |-> err[h] = "none"]

\* Events of every branch, among them update events without updated_at;
\* the same event can be delivered again.
TwiceEvents ==
    LiveEvents
    \cup {[BaseEvent EXCEPT !.post_id = "p1", !.content_type = ct,
                            !.title = "T", !.keywords = <<"a">>] :
            ct \in {Undef, Freeform}}
    \cup {[BaseEvent EXCEPT !.url = "B", !.title = t,
                            !.keywords = <<"a">>, !.questions = <<"q">>] :
            t \in {Undef, "T"}}
    \cup {[BaseEvent EXCEPT !.url = Null, !.canonical_url = c,
                            !.title = "T"] : c \in {Undef, "", "B"}}

NextTwice ==
    \/ Receive("h1", TwiceEvents)
    \/ Step("h1")
    \/ Throw("h1")
    \/ ReturnEvent("h1")

SpecTwice == Init /\ [][NextTwice]_vars


\* The handler as in Spec, with the visibleAt the post p1 starts with kept
\* in prev for the whole behaviour.
InitFirst ==
    /\ db \in InitStores
    /\ now = T0
    /\ handled = 0
    /\ nextId = 1
    /\ pc = [h \in Handlers |-> "idle"]
    /\ msg = [h \in Handlers |-> NoEvent]
    /\ fx = [h \in Handlers |-> NoFix]
    /\ loc = [h \in Handlers |-> NoLoc]
    /\ wlog = [h \in Handlers |-> <<>>]
    /\ err = [h \in Handlers |-> "none"]
    /\ promise = [h \in Handlers |-> "none"]
    /\ prev = [post_id |-> "p1", visibleAt |-> db.posts["p1"].visibleAt]

SpecFirst == InitFirst /\ [][Next]_vars


\* Update events for p1 that carry a collection, an origin and an order,
\* with events of the other branches.
MergeEvents ==
    {[BaseEvent EXCEPT !.post_id = "p1", !.content_type = ct,
                       !.title = "T", !.source_id = sid, !.origin = o,
                       !.order = ord, !.updated_at = at] :
        ct \in {Undef, Freeform}, sid \in {Undef, "", "sq"},
        o \in {Undef, Squad}, ord \in {0, 1}, at \in {NoDate, 70000}}
    \cup LiveEvents

NextMerge ==
    \/ Receive("h1", MergeEvents)
    \/ Step("h1")
    \/ Throw("h1")
    \/ Return("h1")

SpecMerge == Init /\ [][NextMerge]_vars


\* Create and update events with the creator handles and the source ids
\* that normalization tells apart, with events of the other branches.
NormalizeEvents ==
    {[BaseEvent EXCEPT !.url = "B", !.title = "T",
                       !.creator_twitter = cr, !.source_id = sid] :
        cr \in {Undef, "", "@", "u1tw"},
        sid \in {Undef, "a", "sq", UNKNOWN_SOURCE, "zz"}}
    \cup {[BaseEvent EXCEPT !.post_id = ic[1], !.content_type = ic[2],
                            !.title = "T", !.updated_at = 70000,
                            !.creator_twitter = cr, !.source_id = sid] :
            ic \in {<<"p1", Undef>>, <<"sh1", Share>>},
            cr \in {"", "u1tw"},
            sid \in {Undef, UNKNOWN_SOURCE, "zz"}}
    \cup LiveEvents

NextNormalize ==
    \/ Receive("h1", NormalizeEvents)
    \/ Step("h1")
    \/ Throw("h1")
    \/ Return("h1")

SpecNormalize == Init /\ [][NextNormalize]_vars

\* ================================================================== claims
\* The step that commits the transaction of h.
Committing(h) == pc[h] = "commit" /\ pc'[h] = "done" /\ err'[h] = "none"
\* h has returned after a commit.
Committed(h) == pc[h] = "done" /\ err[h] = "none"

\* canonicalUrl of an event: extra.canonical_url, else its url.
EventCanonicalUrl(e) ==
    IF Truthy(e.canonical_url) THEN e.canonical_url ELSE e.url
UrlsOf(row) == {row.url, row.canonicalUrl} \ {Null}
SharesUrl(s, e) ==
    \E i \in DOMAIN s.posts :
        UrlsOf(s.posts[i]) \cap {e.url, EventCanonicalUrl(e)} # {}
Inserted == DOMAIN db'.posts \ DOMAIN db.posts
Banned(e) == e.creator_twitter \in bannedAuthors

\* C1 as stated: a create event whose url or canonicalUrl is the url or the
\* canonicalUrl of a stored post inserts no post, and no two stored posts
\* that the handler created (the posts with a generated id) share a url or
\* canonicalUrl value.
C1_NoTwoPostsShareUrl ==
    /\ [](\A i, j \in DOMAIN db.posts :
            (/\ i # j
             /\ \E k \in DOMAIN NewIds : NewIds[k] = i
             /\ \E k \in DOMAIN NewIds : NewIds[k] = j)
               => UrlsOf(db.posts[i]) \cap UrlsOf(db.posts[j]) = {})
    /\ [][\A h \in Handlers :
             (IsCreateEvent(msg[h]) /\ SharesUrl(db, msg[h]))
                => db'.posts = db.posts]_vars

\* The event h handles is an update event e2 that follows an update event e1
\* for the same post id with e1.metadataChangedAt >= e2.metadataChangedAt.
StaleAfter(h) ==
    /\ msg[h] # NoEvent /\ IsUpdateEvent(msg[h])
    /\ prev # NoPrev
    /\ prev.post_id = msg[h].post_id
    /\ fx[h] # NoFix
    /\ prev.metadataChangedAt >= fx[h].fixedData.vals.metadataChangedAt

\* C2 as stated: after an update event e1 (handled without a failure and
\* not filtered out), an update event e2 for the same post id with
\* e2.metadataChangedAt <= e1.metadataChangedAt changes nothing in the store.
C2_StaleAfterAnyUpdate ==
    [][\A h \in Handlers : (StaleAfter(h) /\ prev.checked) => db' = db]_vars

\* C2 (as amended): the same when e1 and e2 also declare the same content
\* type (none standing for article).
C2_StaleAfterCheckedUpdate ==
    [][\A h \in Handlers :
         (/\ StaleAfter(h)
          /\ prev.checked
          /\ prev.content_type = contentTypeFromPostType(msg[h].content_type))
            => db' = db]_vars

\* e1 was applied to p1 and e2, not newer, was discarded by the staleness
\* test.
C2_Witness ==
    /\ Committed("h1")
    /\ StaleAfter("h1") /\ prev.checked /\ ~Banned(msg["h1"])
    /\ prev.content_type = contentTypeFromPostType(msg["h1"].content_type)
    /\ prev.post_id = "p1"
    /\ db.posts["p1"].metadataChangedAt = prev.metadataChangedAt
    /\ db.posts["p1"].metadataChangedAt > 50000

\* The create event h handles passed the duplicate check (the query of h
\* answered no row) and the submission h loaded has the resolved author as
\* its user.
SelfSubmission(h) ==
    /\ IsCreateEvent(msg[h]) /\ ~Banned(msg[h])
    /\ ~loc[h].existingPost
    /\ loc[h].submission # NoSub
    /\ fx[h].fixedData.vals.authorId = loc[h].submission.userId

\* C3: a create event with a submission id that passes the duplicate check
\* and whose resolved author is the submission's user sets the submission to
\* Rejected / ScoutIsAuthor and inserts no post, keyword or question.
C3_SelfSubmissionGuard ==
    [][\A h \in Handlers :
         (Committing(h) /\ SelfSubmission(h)) =>
            /\ db'.submissions[msg[h].submission_id].status = Rejected
            /\ db'.submissions[msg[h].submission_id].reason = ScoutIsAuthor
            /\ db'.posts = db.posts
            /\ db'.postKeywords = db.postKeywords
            /\ db'.postQuestions = db.postQuestions]_vars

C3_Witness ==
    /\ Committed("h1")
    /\ IsCreateEvent(msg["h1"]) /\ msg["h1"].creator_twitter = "u1tw"
    /\ msg["h1"].submission_id = "s1" /\ msg["h1"].keywords # <<>>
    /\ SelfSubmission("h1")
    /\ db.submissions["s1"].status = Rejected
    /\ db.submissions["s1"].reason = ScoutIsAuthor

\* C4 as stated: a rejection event naming a Started submission moves it to
\* Rejected with reason reject_reason when that is a key of the failure
\* messages and GenericError otherwise.
C4_RejectionTransition ==
    [][\A h \in Handlers :
         (/\ Committing(h)
          /\ Truthy(msg[h].reject_reason)
          /\ msg[h].submission_id \in DOMAIN db.submissions
          /\ db.submissions[msg[h].submission_id].status = Started)
            => /\ db'.submissions[msg[h].submission_id].status = Rejected
               /\ db'.submissions[msg[h].submission_id].reason =
                    IF msg[h].reject_reason \in SubmissionFailErrorMessage
                    THEN msg[h].reject_reason ELSE GenericError]_vars

\* C5: a rejection event changes no post, SharePost, keyword or question,
\* and changes nothing at all when it names no submission, an unknown one or
\* one that is not Started.
C5_RejectionFrame ==
    [][\A h \in Handlers :
         (msg[h] # NoEvent /\ Truthy(msg[h].reject_reason)) =>
            /\ db'.posts = db.posts
            /\ db'.postKeywords = db.postKeywords
            /\ db'.postQuestions = db.postQuestions
            /\ (\/ ~Truthy(msg[h].submission_id)
                \/ msg[h].submission_id \notin DOMAIN db.submissions
                \/ db.submissions[msg[h].submission_id].status # Started)
                  => db' = db]_vars

\* A rejection event that also names a stored post, a title and a banned
\* creator, and a submission that is no longer Started, has committed.
C5_Witness ==
    /\ Committed("h1")
    /\ Truthy(msg["h1"].reject_reason)
    /\ msg["h1"].post_id = "p1" /\ Banned(msg["h1"])
    /\ msg["h1"].submission_id = "s1"
    /\ db.submissions["s1"].status = Accepted

\* C6 as stated: a submission that is Accepted or Rejected never changes
\* status or reason again.
C6_TerminalStatesStay ==
    [][\A i \in DOMAIN db.submissions :
         db.submissions[i].status \in {Accepted, Rejected}
            => db'.submissions[i] = db.submissions[i]]_vars

\* C7: when a store operation fails while an event is processed, the store
\* is left as it was before the event: nothing changes in it from the
\* delivery of the message up to the failure, and no write of the
\* transaction is left pending.
C7_Atomicity ==
    [][\A h \in Handlers :
         (pc[h] \in InTransaction /\ ~Committing(h)) =>
            /\ db' = db
            /\ err'[h] # "none" => wlog'[h] = <<>>]_vars

\* The keyword insert of a create event failed after the submission had been
\* marked Accepted and the post inserted in the transaction: the submission
\* is Started and the post is not stored.
C7_Witness ==
    /\ pc["h1"] = "done" /\ err["h1"] = "createKeywords"
    /\ msg["h1"].submission_id = "s1"
    /\ fx["h1"].fixedData.vals.scoutId = "u1"
    /\ fx["h1"].fixedData.vals.id = "n1"
    /\ db.submissions["s1"].status = Started
    /\ "n1" \notin DOMAIN db.posts
    /\ db.postKeywords = {<<"p1", "b">>}

\* C8: the promise of a handler never rejects, and every handler that was
\* called eventually resolves.
C8_AlwaysResolves ==
    \A h \in Handlers :
        /\ [](promise[h] # "rejected")
        /\ (promise[h] = "pending") ~> (promise[h] = "resolved")

\* A handler resolved after the insert of the post failed.
C8_Witness ==
    /\ pc["h1"] = "done" /\ err["h1"] = "createSave"
    /\ promise["h1"] = "resolved"

\* C9: a post the create path inserts is visible with a visibleAt when the
\* event's title is non-empty, and invisible with a null visibleAt when the
\* title is empty or missing.
C9_VisibilityOnCreate ==
    [][\A h \in Handlers :
         Committing(h) =>
            \A i \in Inserted :
                IF msg[h].title \notin {Undef, ""}
                THEN db'.posts[i].visible /\ db'.posts[i].visibleAt # NoDate
                ELSE ~db'.posts[i].visible /\ db'.posts[i].visibleAt = NoDate]_vars

\* A create event with an empty title stored an invisible post.
C9_Witness ==
    /\ Committed("h1") /\ handled = 1
    /\ IsCreateEvent(msg["h1"]) /\ msg["h1"].title = ""
    /\ "n1" \in DOMAIN db.posts
    /\ ~db.posts["n1"].visible /\ db.posts["n1"].visibleAt = NoDate

\* C10: every stored post has a visibleAt exactly when it is visible.
C10_VisibleAtIffVisible ==
    \A i \in DOMAIN db.posts :
        (db.posts[i].visibleAt # NoDate) <=> db.posts[i].visible

\* An update made p1 visible and the cascade wrote its SharePost; a later
\* update of p1 cleared both visible and visibleAt.
C10_Witness ==
    /\ db.posts["sh1"].visible /\ db.posts["sh1"].visibleAt > 50000
    /\ ~db.posts["p1"].visible /\ db.posts["p1"].visibleAt = NoDate
    /\ db.posts["p1"].type = Article

\* The posts the create path stored.
Created(s) == DOMAIN s.posts \cap SeqToSet(NewIds)

\* C11: a post the create path inserts has its id as shortId and the score
\* floor(createdAt / 60000), and its score is not smaller than the score of
\* any post the create path inserted before it.
C11_ScoreOnCreate ==
    [][\A h \in Handlers :
         Committing(h) =>
            \A i \in Inserted :
                /\ db'.posts[i].shortId = i
                /\ db'.posts[i].score * 60000 <= db'.posts[i].createdAt
                /\ db'.posts[i].createdAt < (db'.posts[i].score + 1) * 60000
                /\ \A j \in Created(db) :
                      /\ db.posts[j].createdAt <= db'.posts[i].createdAt
                      /\ db.posts[j].score <= db'.posts[i].score]_vars

\* Two posts were created, the first at 100000 ms with score 1 and the
\* second in the next minute with score 2.
C11_Witness ==
    /\ Created(db) = {"n1", "n2"}
    /\ db.posts["n1"].createdAt = T0 + TickMs /\ db.posts["n1"].score = 1
    /\ db.posts["n2"].score = 2
    /\ db.posts["n2"].shortId = "n2"
\* C12: an update whose content type is freeform changes, of the stored
\* fields of the post it names, only visible, visibleAt, flags, yggdrasilId,
\* metadataChangedAt, summary and tagsStr (contentCuration, description and
\* readTime are not stored in the model); every other field keeps its value.
C12_FreeformIsolation ==
    [][\A h \in Handlers :
         (/\ Committing(h)
          /\ IsUpdateEvent(msg[h])
          /\ contentTypeFromPostType(msg[h].content_type) = Freeform
          /\ msg[h].post_id \in DOMAIN db.posts)
            => LET allowed == {"id", "visible", "visibleAt", "flags",
                               "yggdrasilId", "contentCuration",
                               "description", "metadataChangedAt",
                               "readTime", "summary", "tagsStr"}
                   id == msg[h].post_id
               IN  /\ id \in DOMAIN db'.posts
                   /\ \A f \in DOMAIN PostDefaults \ allowed :
                         db'.posts[id][f] = db.posts[id][f]]_vars

\* A freeform update carrying a new url, title, image, source, origin and
\* author was applied to the freeform post p1: its metadata and summary are
\* the event's, its url, title and source the stored ones.
C12_Witness ==
    /\ Committed("h1")
    /\ msg["h1"].content_type = Freeform /\ msg["h1"].url = "Z"
    /\ msg["h1"].title = "T" /\ msg["h1"].source_id = "sq"
    /\ db.posts["p1"].type = Freeform
    /\ db.posts["p1"].metadataChangedAt = 70000
    /\ db.posts["p1"].summary = "S"
    /\ db.posts["p1"].url = "A" /\ db.posts["p1"].sourceId = "a"
    /\ db.posts["p1"].title # "T" /\ db.posts["p1"].authorId = Null
\* C13: an update that changes the tag string of a post from "a,b" to "b,c"
\* leaves the post without the keyword a and with the keywords b and c.
C13_KeywordReindex ==
    [][\A h \in Handlers :
         (/\ Committing(h)
          /\ IsUpdateEvent(msg[h])
          /\ msg[h].post_id \in DOMAIN db.posts
          /\ db.posts[msg[h].post_id].tagsStr = <<"a", ",", "b">>
          /\ db'.posts[msg[h].post_id].tagsStr = <<"b", ",", "c">>)
            => /\ <<msg[h].post_id, "a">> \notin db'.postKeywords
               /\ <<msg[h].post_id, "b">> \in db'.postKeywords
               /\ <<msg[h].post_id, "c">> \in db'.postKeywords]_vars

\* The post n1 was created with the keywords a and b and an update gave it
\* the tag string "b,c".
C13_Witness ==
    /\ Committed("h1") /\ IsUpdateEvent(msg["h1"])
    /\ msg["h1"].keywords = <<"b", "c">>
    /\ "n1" \in DOMAIN db.posts
    /\ db.posts["n1"].tagsStr = <<"b", ",", "c">>
    /\ db.postKeywords = {<<"p1", "b">>, <<"n1", "b">>, <<"n1", "c">>}
\* C14: an event without reject_reason whose creator handle is in the list
\* of banned authors changes nothing in the store, be it a create or an
\* update event.
C14_BannedAuthor ==
    [][\A h \in Handlers :
         (/\ msg[h] # NoEvent
          /\ ~Truthy(msg[h].reject_reason)
          /\ Banned(msg[h]))
            => /\ db' = db
               /\ wlog'[h] = <<>>]_vars

\* An update event of a banned author for p1, newer than the stored
\* metadata, has committed as the second message; p1 keeps its older
\* metadata.
C14_Witness ==
    /\ Committed("h1") /\ handled = 2
    /\ IsUpdateEvent(msg["h1"]) /\ Banned(msg["h1"])
    /\ msg["h1"].updated_at > db.posts["p1"].metadataChangedAt
    /\ db.submissions["s1"].status = Started
    /\ DOMAIN db.posts = {"p1", "sh1"}
    /\ prev = NoPrev
\* C15: a create event that names a stored submission, passes the duplicate
\* check and whose resolved author is not the submission's user sets the
\* submission to Accepted and inserts a post with the submission's user as
\* scoutId and the community-picks origin; a post created without a scout
\* has the event's origin, or the crawler origin when the event has none.
C15_AcceptSubmission ==
    [][\A h \in Handlers :
         (Committing(h) /\ IsCreateEvent(msg[h]) /\ ~Banned(msg[h])) =>
            LET sid == msg[h].submission_id
                found == sid \in DOMAIN db.submissions
                author == findAuthor(msg[h].creator_twitter)
            IN  /\ (found /\ ~SharesUrl(db, msg[h])
                          /\ author # db.submissions[sid].userId)
                      => /\ Inserted # {}
                         /\ db'.submissions[sid].status = Accepted
                         /\ \A i \in Inserted :
                               /\ db'.posts[i].scoutId = db.submissions[sid].userId
                               /\ db'.posts[i].origin = CommunityPicks
                /\ ~found
                      => \A i \in Inserted :
                            /\ db'.posts[i].scoutId = Null
                            /\ db'.posts[i].origin =
                                 IF msg[h].origin = Undef THEN Crawler
                                 ELSE msg[h].origin]_vars

\* A create event with the squad origin that names the submission s1 of
\* another user was accepted: the post has the scout and the community-picks
\* origin.
C15_Witness ==
    /\ Committed("h1") /\ IsCreateEvent(msg["h1"])
    /\ msg["h1"].submission_id = "s1" /\ msg["h1"].origin = Squad
    /\ db.submissions["s1"].status = Accepted
    /\ "n1" \in DOMAIN db.posts
    /\ db.posts["n1"].scoutId = "u1"
    /\ db.posts["n1"].origin = CommunityPicks
\* C16: with two create events handled concurrently, the duplicate check of
\* a handler passes whenever no committed post shares the event's url or
\* canonicalUrl, whatever the other handler has inserted in its open
\* transaction; so two committed posts with the same url are reachable.
C16_CheckSeesCommittedOnly ==
    [][\A h \in Handlers :
         (/\ pc[h] = "createPost" /\ pc'[h] # "createPost"
          /\ err'[h] = "none"
          /\ ~SharesUrl(db, msg[h]))
            => pc'[h] \in {"createSubmission", "generateShortId"}]_vars

\* Two create events for the url B were handled concurrently and both
\* inserted a post: n1 and n2 are stored with the url B.
C16_Witness ==
    /\ {"n1", "n2"} \subseteq DOMAIN db.posts
    /\ db.posts["n1"].url = "B" /\ db.posts["n2"].url = "B"
    /\ db.posts["n1"].canonicalUrl = db.posts["n2"].canonicalUrl
\* C17: with unique indexes on url and canonicalUrl, concurrent create
\* events for one url commit at most one post; a handler whose transaction
\* failed leaves the store as it was, no submission is Accepted without the
\* post of its scout, no keyword or question is associated with a post that
\* is not stored, and the handler resolves (its promise never rejects).
C17_UniquenessBackstop ==
    /\ [](\A i, j \in DOMAIN db.posts :
            i # j => /\ UrlsOf([db.posts[i] EXCEPT !.canonicalUrl = Null])
                           \cap UrlsOf([db.posts[j] EXCEPT !.canonicalUrl = Null])
                        = {}
                     /\ UrlsOf([db.posts[i] EXCEPT !.url = Null])
                           \cap UrlsOf([db.posts[j] EXCEPT !.url = Null])
                        = {})
    /\ [](\A s \in DOMAIN db.submissions :
            db.submissions[s].status = Accepted
               => \E i \in Created(db) :
                     db.posts[i].scoutId = db.submissions[s].userId)
    /\ [](\A a \in db.postKeywords \cup db.postQuestions :
            a[1] \in DOMAIN db.posts)
    /\ [][\A h \in Handlers :
            (err'[h] # err[h] /\ err'[h] # "none")
               => db' = db /\ wlog'[h] = <<>> /\ promise'[h] = "resolved"]_vars
    /\ [](\A h \in Handlers : promise[h] # "rejected")

\* Two create events for the url B were handled concurrently; the insert of
\* h2 was refused after h1 committed n1, and h2 resolved leaving one post.
C17_Witness ==
    /\ pc["h2"] = "done" /\ err["h2"] = "createSave"
    /\ promise["h2"] = "resolved"
    /\ IsCreateEvent(msg["h2"]) /\ msg["h2"].url = "B"
    /\ msg["h2"].submission_id = "s1"
    /\ Created(db) = {"n1"} /\ db.posts["n1"].url = "B"
    /\ pc["h1"] = "done" /\ err["h1"] = "none" /\ msg["h1"].url = "B"
    /\ IsCreateEvent(msg["h1"])
\* C18: with two update events for one post handled concurrently, the
\* staleness test of a handler passes whenever the committed
\* metadataChangedAt of the post is older than the event's (as fixData
\* resolved it), whatever the other handler has written in its open transaction; so the older event can
\* commit last and leave the post with a metadataChangedAt older than one
\* already committed.
C18_StaleTestSeesCommittedOnly ==
    [][\A h \in Handlers :
         (/\ pc[h] = "updatePost" /\ pc'[h] # "updatePost"
          /\ err'[h] = "none"
          /\ msg[h].post_id \in DOMAIN db.posts
          /\ db.posts[msg[h].post_id].type =
                contentTypeFromPostType(msg[h].content_type)
          /\ db.posts[msg[h].post_id].metadataChangedAt
                < fx[h].fixedData.vals.metadataChangedAt)
            => pc'[h] = "updateSave"]_vars

\* h1 applied the update of p1 dated 70000 and h2, whose update is dated
\* 60000, committed after it: p1 holds the older date and the older title.
C18_Witness ==
    /\ pc["h1"] = "done" /\ err["h1"] = "none"
    /\ pc["h2"] = "done" /\ err["h2"] = "none"
    /\ msg["h1"].post_id = "p1" /\ msg["h1"].updated_at = 70000
    /\ msg["h1"].title = "T"
    /\ msg["h2"].post_id = "p1" /\ msg["h2"].updated_at = NoDate
    /\ now = T0
    /\ db.posts["p1"].metadataChangedAt = T0
    /\ db.posts["p1"].title = "T2"
\* The event h handles is the event handled just before it, whose
\* transaction committed.
Redelivered(h) ==
    /\ msg[h] # NoEvent
    /\ prev # NoPrev
    /\ prev.event = msg[h]
    /\ prev.committed

\* C19 as stated: handling any event a second time, right after it was
\* handled, changes nothing in the store.
C19_RedeliveryChangesNothing ==
    [][\A h \in Handlers : Redelivered(h) => db' = db]_vars

\* The event carries a url or a canonical url: the canonicalUrl of its post
\* (canonical_url || url) is not null.
HasUrl(e) == e.url \notin {Null, Undef} \/ Truthy(e.canonical_url)

\* C19 (as amended): the same for rejection events, for the create events
\* that carry a url or a canonical url and for the update events that carry
\* updated_at.
C19_RedeliveryOfDatedEvent ==
    [][\A h \in Handlers :
         (/\ Redelivered(h)
          /\ IsCreateEvent(msg[h]) => HasUrl(msg[h])
          /\ IsUpdateEvent(msg[h]) => msg[h].updated_at # NoDate)
            => db' = db]_vars

\* The update of p1 dated 70000 was applied and then handled again, and so
\* was a create event: the second handling committed.
C19_Witness ==
    /\ Committed("h1") /\ Redelivered("h1")
    /\ \/ /\ IsUpdateEvent(msg["h1"]) /\ msg["h1"].updated_at = 70000
          /\ db.posts["p1"].metadataChangedAt = 70000
       \/ /\ IsCreateEvent(msg["h1"]) /\ msg["h1"].submission_id = "s1"
          /\ "n1" \in DOMAIN db.posts
          /\ db.submissions["s1"].status = Accepted
\* The post an update event names, as stored under the declared content
\* type.
Target(h) ==
    findPost(db, contentTypeFromPostType(msg[h].content_type), msg[h].post_id)

\* The step that commits an applied update: the post the handler read
\* under the declared type passed the staleness test.
Applied(h) ==
    /\ Committing(h)
    /\ IsUpdateEvent(msg[h]) /\ ~Banned(msg[h])
    /\ ~isStale(loc[h].databasePost, fx[h].fixedData)

\* C22: after an applied freeform update the post is visible exactly when it
\* was before; after an applied update of another content type it is visible
\* exactly when it was not visible before and the resulting title is
\* non-empty.
C22_VisibleAfterUpdate ==
    [][\A h \in Handlers :
         Applied(h) =>
            LET title == IF Truthy(msg[h].title) THEN msg[h].title
                         ELSE Target(h).title
            IN  db'.posts[msg[h].post_id].visible <=>
                    IF contentTypeFromPostType(msg[h].content_type) = Freeform
                    THEN Target(h).visible
                    ELSE ~Target(h).visible /\ Truthy(title)]_vars

\* An update without a title was applied to the visible article p1, which
\* keeps its stored title and is no longer visible.
C22_Witness ==
    /\ Committed("h1") /\ handled = 1
    /\ msg["h1"].post_id = "p1" /\ msg["h1"].title = Undef
    /\ msg["h1"].updated_at = 70000
    /\ db.posts["p1"].type = Article /\ db.posts["p1"].title = "Old"
    /\ db.posts["p1"].metadataChangedAt = 70000
    /\ ~db.posts["p1"].visible
\* C23 as stated: an applied update of a visible post whose resulting title
\* is non-empty leaves the post visible.
C23_VisibleStaysVisible ==
    [][\A h \in Handlers :
         (/\ Applied(h)
          /\ Target(h).visible
          /\ Truthy(IF Truthy(msg[h].title) THEN msg[h].title
                    ELSE Target(h).title))
            => db'.posts[msg[h].post_id].visible]_vars

\* C24 as stated: the visibleAt of the post p1, which starts with a
\* timestamp, holds no other timestamp later on.
C24_VisibleAtIsFirstTime ==
    prev.visibleAt # NoDate
        => db.posts["p1"].visibleAt \in {prev.visibleAt, NoDate}
\* C25 as stated: when an applied update leaves the post it names visible,
\* every SharePost that wraps the post is visible, has the visibleAt the
\* update stored on the post and has the privacy resolved for the event as
\* its private value, whatever the content type.
C25_ShareCascade ==
    [][\A h \in Handlers :
         (Applied(h) /\ db'.posts[msg[h].post_id].visible) =>
            \A i \in DOMAIN db'.posts :
                (/\ db'.posts[i].type = Share
                 /\ db'.posts[i].sharedPostId = msg[h].post_id)
                  => /\ db'.posts[i].visible
                     /\ db'.posts[i].visibleAt
                            = db'.posts[msg[h].post_id].visibleAt
                     /\ getSourcePrivacy(db, msg[h]) # Undef
                            => db'.posts[i].private
                                   = (getSourcePrivacy(db, msg[h]) = "true")]_vars
\* A SharePost other than the post the event of h names differs after the
\* step.
SharesWritten(h) ==
    \E i \in DOMAIN db.posts :
        /\ db.posts[i].type = Share /\ i # msg[h].post_id
        /\ db'.posts[i] # db.posts[i]

\* C26 as stated: an update event changes a SharePost only when it is
\* applied and takes the post it names from not visible to visible.
C26_SharesOnlyOnTransition ==
    [][\A h \in Handlers :
         (msg[h] # NoEvent /\ IsUpdateEvent(msg[h]) /\ SharesWritten(h))
            => /\ Applied(h)
               /\ ~Target(h).visible
               /\ db'.posts[msg[h].post_id].visible]_vars

\* C26 (as amended): an update event changes a SharePost only when it is
\* applied and either takes the post it names from not visible to visible
\* or is a freeform update of a visible post.
C26_SharesOnlyWhenVisibleAfter ==
    [][\A h \in Handlers :
         (msg[h] # NoEvent /\ IsUpdateEvent(msg[h]) /\ SharesWritten(h))
            => /\ Applied(h)
               /\ db'.posts[msg[h].post_id].visible
               /\ \/ ~Target(h).visible
                  \/ contentTypeFromPostType(msg[h].content_type) = Freeform]_vars

\* The first event, a freeform update of the visible freeform post p1, was
\* applied and wrote the flags of the SharePost that wraps p1.
C26_Witness ==
    /\ Committed("h1") /\ handled = 1
    /\ IsUpdateEvent(msg["h1"]) /\ msg["h1"].post_id = "p1"
    /\ msg["h1"].content_type = Freeform
    /\ db.posts["p1"].type = Freeform /\ db.posts["p1"].visible
    /\ db.posts["p1"].metadataChangedAt > 50000
    /\ db.posts["sh1"] # InitShare(TRUE)
    /\ db.posts["sh1"].visible /\ db.posts["sh1"].visibleAt = 50000
\* C27: an update event that names no stored post of the declared content
\* type (article when none is declared), be it that no post has the id or
\* that the post with the id is of another type, changes nothing in the
\* store; an update event inserts no post; and no step removes a post.
C27_UpdateNeverInsertsOrDeletes ==
    [][/\ \A h \in Handlers :
            (msg[h] # NoEvent /\ IsUpdateEvent(msg[h])) =>
                /\ DOMAIN db'.posts = DOMAIN db.posts
                /\ (\/ msg[h].post_id \notin DOMAIN db.posts
                    \/ db.posts[msg[h].post_id].type
                         # contentTypeFromPostType(msg[h].content_type))
                      => db' = db
       /\ DOMAIN db.posts \subseteq DOMAIN db'.posts]_vars

\* A freeform update newer than the stored metadata named the article p1
\* and committed: the store is as it was.
C27_Witness ==
    /\ Committed("h1") /\ handled = 1
    /\ msg["h1"].post_id = "p1" /\ msg["h1"].content_type = Freeform
    /\ msg["h1"].updated_at = 70000 /\ msg["h1"].title = "T"
    /\ db.posts["p1"] = InitPost(Article, FALSE)
    /\ db.posts["sh1"] = InitShare(FALSE)
\* C28: an applied update of a content type other than freeform stores the
\* unknown-source sentinel as sourceId when the event's origin is squad,
\* else the event's source_id when it has a non-empty one, else the
\* sourceId the post had.
C28_SourceOnUpdate ==
    [][\A h \in Handlers :
         (/\ Applied(h)
          /\ contentTypeFromPostType(msg[h].content_type) # Freeform)
            => db'.posts[msg[h].post_id].sourceId =
                   IF msg[h].origin = Squad THEN UNKNOWN_SOURCE
                   ELSE IF Truthy(msg[h].source_id) THEN msg[h].source_id
                   ELSE Target(h).sourceId]_vars

\* An article update with origin squad and source_id sq was applied to p1,
\* which had the collection a and now has the sentinel.
C28_Witness ==
    /\ Committed("h1") /\ handled = 1
    /\ msg["h1"].post_id = "p1" /\ msg["h1"].content_type = Undef
    /\ msg["h1"].origin = Squad /\ msg["h1"].source_id = "sq"
    /\ db.posts["p1"].metadataChangedAt = 70000
    /\ db.posts["p1"].sourceId = UNKNOWN_SOURCE
\* C29 as stated: an applied update leaves every entry stored in the flags
\* of the post, other than private and visible, with its value.
C29_OnlyPrivateAndVisible ==
    [][\A h \in Handlers :
         Applied(h) =>
            \A k \in DOMAIN Target(h).flags \ {"private", "visible"} :
                /\ k \in DOMAIN db'.posts[msg[h].post_id].flags
                /\ db'.posts[msg[h].post_id].flags[k] = Target(h).flags[k]]_vars

\* C29 (as amended): an applied update leaves every entry stored in the
\* flags of the post, other than private, visible, showOnFeed and
\* sentAnalyticsReport, with its value.
C29_OtherFlagsKept ==
    [][\A h \in Handlers :
         Applied(h) =>
            \A k \in DOMAIN Target(h).flags
                       \ {"private", "visible", "showOnFeed",
                          "sentAnalyticsReport"} :
                /\ k \in DOMAIN db'.posts[msg[h].post_id].flags
                /\ db'.posts[msg[h].post_id].flags[k] = Target(h).flags[k]]_vars

\* Two updates were applied to p1, the second with an order: the flags keep
\* promoteToPublic and hold showOnFeed = false.
C29_Witness ==
    /\ Committed("h1") /\ handled = 2
    /\ msg["h1"].post_id = "p1" /\ msg["h1"].order = 1
    /\ db.posts["p1"].metadataChangedAt = 70000
    /\ DOMAIN db.posts["p1"].flags =
           {"private", "visible", "showOnFeed", "sentAnalyticsReport",
            "promoteToPublic"}
    /\ db.posts["p1"].flags.promoteToPublic
    /\ ~db.posts["p1"].flags.showOnFeed
\* C30: an applied update whose tag string equals the stored one writes no
\* keyword association (none is added or removed, and the transaction holds
\* no write to the keyword index); no update event removes a question
\* association; an update event that is not applied leaves both indexes as
\* they were.
C30_IndexMaintenance ==
    [][\A h \in Handlers :
         (msg[h] # NoEvent /\ IsUpdateEvent(msg[h])) =>
            /\ db.postQuestions \subseteq db'.postQuestions
            /\ ~Applied(h) =>
                  /\ db'.postKeywords = db.postKeywords
                  /\ db'.postQuestions = db.postQuestions
            /\ (/\ Applied(h)
                /\ fx[h].fixedData.vals.tagsStr = Target(h).tagsStr) =>
                  /\ db'.postKeywords = db.postKeywords
                  /\ \A i \in DOMAIN wlog[h] :
                        wlog[h][i].op \notin {"kwAdd", "kwRemove"}]_vars

\* The post n1 was created with the keywords a and b and the question q; an
\* update with the same keywords was applied and left both indexes as they
\* were.
C30_Witness ==
    /\ Committed("h1") /\ handled = 2
    /\ msg["h1"].post_id = "n1" /\ msg["h1"].keywords = <<"a", "b">>
    /\ "n1" \in DOMAIN db.posts
    /\ db.posts["n1"].metadataChangedAt = 70000
    /\ db.posts["n1"].tagsStr = <<"a", ",", "b">>
    /\ db.postKeywords = {<<"p1", "b">>, <<"n1", "a">>, <<"n1", "b">>}
    /\ db.postQuestions = {<<"n1", "q">>}
\* C31: when fixData has normalized an event, a creator handle that is empty
\* or '@' has become a null creatorTwitter and a null author, and the
\* sentAnalyticsReport column and flag are both true exactly when the
\* resolved privacy is true or no author was resolved.
C31_AuthorNormalization ==
    [][\A h \in Handlers :
         (fx[h] = NoFix /\ fx'[h] # NoFix) =>
            LET data == fx'[h].fixedData.vals IN
            /\ msg[h].creator_twitter \in {"", "@"} =>
                  /\ data.creatorTwitter = Null
                  /\ data.authorId = Null
            /\ data.sentAnalyticsReport
                  <=> (data.private = "true" \/ data.authorId = Null)
            /\ data.flags.sentAnalyticsReport = data.sentAnalyticsReport]_vars

\* A post was created from an event whose creator handle is '@' and whose
\* collection is public: it is stored without creator and author and with
\* sentAnalyticsReport set; and the handle of a known user resolved to an
\* author leaves sentAnalyticsReport unset.
C31_Witness ==
    /\ Committed("h1")
    /\ IsCreateEvent(msg["h1"])
    /\ msg["h1"].creator_twitter = "@" /\ msg["h1"].source_id = "a"
    /\ "n1" \in DOMAIN db.posts
    /\ db.posts["n1"].creatorTwitter = Null
    /\ db.posts["n1"].authorId = Null
    /\ db.posts["n1"].private = FALSE
    /\ db.posts["n1"].sentAnalyticsReport
    /\ db.posts["n1"].flags.sentAnalyticsReport
\* C32: the privacy getSourcePrivacy gives is that of the collection named
\* by the event's source_id when it is present and not the unknown-source
\* sentinel, otherwise that of the collection of the post named by post_id,
\* or undefined: always undefined when no collection is found, and possibly
\* undefined when the query fails.  Neither aborts the handler: it goes on
\* to mergeKeywords, and with undefined privacy a created post is stored
\* non-private, without a private flag and with sentAnalyticsReport decided
\* by the author alone, and an update of a stored post is applied.
C32_PrivacyLookup ==
    [][\A h \in Handlers :
         LET e == msg[h]
             byId == Truthy(e.source_id) /\ e.source_id # UNKNOWN_SOURCE
             sourceId == IF byId THEN e.source_id
                         ELSE IF e.post_id \in DOMAIN db.posts
                         THEN db.posts[e.post_id].sourceId
                         ELSE Undef
             found == sourceId \in DOMAIN Sources
         IN
         /\ (pc[h] = "getSourcePrivacy" /\ pc'[h] # pc[h]) =>
               /\ pc'[h] = "mergeKeywords" /\ err'[h] = "none"
               /\ loc'[h].privacy \in
                     {Undef} \cup (IF found THEN {Tri(Sources[sourceId].private)}
                                   ELSE {})
         /\ (Committing(h) /\ IsCreateEvent(e) /\ ~Banned(e)
                           /\ loc[h].privacy = Undef) =>
               \A i \in Inserted :
                  /\ db'.posts[i].private = FALSE
                  /\ "private" \notin DOMAIN db'.posts[i].flags
                  /\ db'.posts[i].sentAnalyticsReport
                        <=> (db'.posts[i].authorId = Null)
         /\ (Applied(h) /\ loc[h].privacy = Undef) =>
               db'.posts[e.post_id].metadataChangedAt
                  = fx[h].fixedData.vals.metadataChangedAt]_vars

\* A post was created from an event naming a collection that does not
\* exist: it is stored non-private.  Then an update of the share sh1 that
\* names no collection was handled; the query for the share's own (private)
\* collection failed, the update was applied all the same and wrote
\* sentAnalyticsReport as for a public post of a known author.
C32_Witness ==
    /\ Committed("h1") /\ handled = 2
    /\ msg["h1"].post_id = "sh1" /\ msg["h1"].source_id = Undef
    /\ msg["h1"].creator_twitter = "u1tw"
    /\ loc["h1"].privacy = Undef
    /\ db.posts["sh1"].metadataChangedAt = 70000
    /\ db.posts["sh1"].private
    /\ ~db.posts["sh1"].sentAnalyticsReport
    /\ "n1" \in DOMAIN db.posts
    /\ db.posts["n1"].sourceId = "zz"
    /\ db.posts["n1"].authorId = "u1"
    /\ db.posts["n1"].private = FALSE
    /\ ~db.posts["n1"].sentAnalyticsReport

\* C33: no step lowers the stored metadataChangedAt of a post or removes a
\* post, and an update that writes anything (of any content type, Freeform
\* included) carries a metadataChangedAt strictly greater than the stored
\* one and stores it.
C33_MetadataChangedAtMonotonic ==
    [][/\ \A i \in DOMAIN db.posts :
             /\ i \in DOMAIN db'.posts
             /\ db'.posts[i].metadataChangedAt >= db.posts[i].metadataChangedAt
       /\ \A h \in Handlers :
             (Committing(h) /\ IsUpdateEvent(msg[h]) /\ wlog[h] # <<>>) =>
                LET id == msg[h].post_id IN
                /\ id \in DOMAIN db.posts
                /\ fx[h].fixedData.vals.metadataChangedAt
                      > db.posts[id].metadataChangedAt
                /\ db'.posts[id].metadataChangedAt
                      = fx[h].fixedData.vals.metadataChangedAt]_vars

\* A freeform update dated 70000 was applied to the freeform post p1, whose
\* metadata was dated 50000.
C33_Witness ==
    /\ Committed("h1")
    /\ msg["h1"].post_id = "p1" /\ msg["h1"].content_type = Freeform
    /\ msg["h1"].updated_at = 70000
    /\ db.posts["p1"].type = Freeform
    /\ db.posts["p1"].metadataChangedAt = 70000
\* C34: a create event whose url or canonical url is already stored is
\* discarded without any write: the submission it names is as it was, a
\* Started submission stays Started.
C34_DuplicateLeavesSubmission ==
    [][\A h \in Handlers :
         (/\ Committing(h)
          /\ IsCreateEvent(msg[h]) /\ ~Banned(msg[h])
          /\ SharesUrl(db, msg[h])) =>
            /\ wlog[h] = <<>>
            /\ db'.submissions = db.submissions
            /\ db'.posts = db.posts]_vars

\* A create event for the stored url A that names the Started submission s1
\* was handled and committed: s1 is still Started.
C34_Witness ==
    /\ Committed("h1") /\ handled = 1
    /\ IsCreateEvent(msg["h1"])
    /\ msg["h1"].url = "A" /\ msg["h1"].submission_id = "s1"
    /\ msg["h1"].title = "Q&amp;A"
    /\ db.submissions["s1"].status = Started
    /\ DOMAIN db.posts = {"p1", "sh1"}
\* C35: the keyword associations of a post are the merged keyword set of the
\* last event that changed its tag string: a create leaves the new post with
\* exactly its merged keywords, an applied update that changes the tag
\* string leaves the post with exactly the update's merged keywords, and
\* every other step leaves the associations of a post as they were.
C35_KeywordIndexConsistent ==
    [][LET Of(s, i) == {k[2] : k \in {a \in s.postKeywords : a[1] = i}}
       IN
       /\ (\A h \in Handlers : ~Committing(h)) =>
             db'.postKeywords = db.postKeywords
       /\ \A h \in Handlers :
             Committing(h) =>
                /\ \A i \in Inserted :
                      Of(db', i) = SeqToSet(fx[h].mergedKeywords)
                /\ \A i \in DOMAIN db.posts :
                      IF /\ Applied(h) /\ i = msg[h].post_id
                         /\ db'.posts[i].tagsStr # db.posts[i].tagsStr
                      THEN Of(db', i) = SeqToSet(fx[h].mergedKeywords)
                      ELSE Of(db', i) = Of(db, i)]_vars
\* C36: in every committed state each Accepted submission has a stored post
\* whose scoutId is the submission's userId, and a transaction that sets a
\* submission to Accepted commits together with the insert of a post that
\* has that scoutId and the community-picks origin.
C36_AcceptedHasPost ==
    /\ [](\A sid \in DOMAIN db.submissions :
             db.submissions[sid].status = Accepted =>
                \E i \in DOMAIN db.posts :
                   db.posts[i].scoutId = db.submissions[sid].userId)
    /\ [][\A sid \in DOMAIN db.submissions :
             (/\ db'.submissions[sid] # db.submissions[sid]
              /\ db'.submissions[sid].status = Accepted) =>
                \E i \in Inserted :
                   /\ db'.posts[i].scoutId = db.submissions[sid].userId
                   /\ db'.posts[i].origin = CommunityPicks]_vars

\* The submission s1 was accepted by a create event without origin and a
\* second message has been handled since: s1 is Accepted and the post n1 has
\* its user as scout and the community-picks origin.
C36_Witness ==
    /\ handled = 2 /\ pc["h1"] = "done"
    /\ db.submissions["s1"].status = Accepted
    /\ DOMAIN db.posts = {"p1", "sh1", "n1"}
    /\ db.posts["n1"].scoutId = db.submissions["s1"].userId
    /\ db.posts["n1"].origin = CommunityPicks
    /\ db.posts["n1"].authorId = Null
\* C37: the post written by a create or by an applied update, of any content
\* type, has flags.visible equal to its visible column and, where the flags
\* hold a private member, flags.private equal to its private column.
C37_FlagsMirrorColumns ==
    [][\A h \in Handlers :
         LET Mirrors(row) ==
                 /\ "visible" \in DOMAIN row.flags
                 /\ row.flags.visible = row.visible
                 /\ "private" \in DOMAIN row.flags =>
                       row.flags.private = row.private
         IN
         /\ (Committing(h) /\ IsCreateEvent(msg[h])) =>
               \A i \in Inserted : Mirrors(db'.posts[i])
         /\ Applied(h) => Mirrors(db'.posts[msg[h].post_id])]_vars
====
